---- MODULE Spec2Model ----
(***************************************************************************)
(* Model of gridsearchcv_musicgenreclassifier.py: the 70/20/10 data split  *)
(* (two train_test_split calls, seed 42), the two hyperparameter grids,    *)
(* the 5-fold grid search of each estimator family with parallel           *)
(* fit-and-score units, the selection and refit of the best candidate,     *)
(* the validation step and the test prediction.                            *)
(*                                                                         *)
(* Rows of the cleaned dataset are the integers 1..n_samples, in file      *)
(* order.  Hyperparameter names and values are strings ("500", "scale").   *)
(* The estimators are external: what a fit does (succeed with some score,  *)
(* or raise) is an input of the model, fixed per (candidate, fold) since   *)
(* every estimator is seeded with random_state=42.                         *)
(***************************************************************************)
EXTENDS Integers, Sequences, FiniteSets, TLC

VARIABLES
    pc,          \* statement the script is at ("raised:...": an exception ended it)
    n_samples,   \* number of rows of music_data
    y,           \* label (class number) of every row
    mt19937,     \* RandomState(42).permutation(k), for every k that is drawn
    rng_calls,   \* number of permutations drawn so far
    X_train,     \* rows of the training partition, in order
    X_temp,      \* rows of the 30% held out by the first split
    X_val,       \* rows of the validation partition
    X_test,      \* rows of the test partition
    resplit,     \* partitions of a repeated split of the same input
    family,      \* estimator family the script is working on: "RFC", then "SVC"
    param_grids, \* the parameter grid handed to each family's GridSearchCV
    param_grid,  \* the grid being expanded: items in insertion order
    product_idx, \* itertools.product's position: one index per sorted item
    candidate_params, \* list(ParameterGrid(param_grid)), as far as expanded
    n_jobs,      \* number of parallel workers (n_jobs=-1: one per core)
    fit_outcome, \* what fitting and scoring (family, candidate, fold) gives
    refit_raises,\* whether fitting the selected candidate on all of X_train raises
    cv_splits,   \* the (train, test) row positions of each of the cv folds
    dispatched,  \* number of fit-and-score units handed to the workers
    running,     \* units a worker is busy with
    out,         \* results of the finished units, by unit number
    cv_results_, \* mean_test_score and rank_test_score of every candidate
    search,      \* per family: best_index_, best_score_, best_params_, best_estimator_
    heap,        \* the estimator objects: parameters and rows last fitted on
    fit_log,     \* every fit made: stage, candidate, fold, rows fitted on, rows scored
    y_pred       \* per family: the test prediction and the estimator that made it

splitVars == <<n_samples, y, mt19937, rng_calls, X_train, X_temp, X_val, X_test, resplit>>
gridVars == <<family, param_grids, param_grid, product_idx, candidate_params>>
searchVars == <<n_jobs, fit_outcome, refit_raises, cv_splits, dispatched, running,
                out, cv_results_, search, heap, fit_log, y_pred>>
vars == <<pc, splitVars, gridVars, searchVars>>

----------------------------------------------------------------------------
(* Bounds of the checked instances *)

\* Largest dataset for which every shuffle is enumerated
MaxRecords == 6
\* Largest dataset for which the partition sizes are computed
MaxDataset == 101
\* Most parameters of a generated grid
MaxParams == 2
\* Longest candidate list of a generated grid
MaxCandidates == 2
\* Largest dataset whose every labelling is folded
MaxFoldRecords == 13
\* Most parallel workers
MaxWorkers == 2
\* Highest score of a fold (scores are whole numbers of correct answers)
MaxScore == 1

----------------------------------------------------------------------------
(* Helpers *)

Range(s) == {s[i] : i \in DOMAIN s}

Reverse(s) == [i \in 1..Len(s) |-> s[Len(s) + 1 - i]]

Identity(n) == [i \in 1..n |-> i]

RECURSIVE PermSeqs(_)
PermSeqs(S) ==
    IF S = {} THEN {<<>>}
    ELSE UNION {{<<x>> \o p : p \in PermSeqs(S \ {x})} : x \in S}

\* ceil(num * n / den): math.ceil(test_size * n_samples) for the two test
\* sizes of the script (0.3 and 1/3 as doubles) equals the exact ceiling for
\* every n_samples below 2,000,000.
Ceil(num, den) == (num + den - 1) \div den

----------------------------------------------------------------------------
(* Data Split: train_test_split(X, y, test_size, random_state=42) *)

random_state == 42

test_size_first == [num |-> 3, den |-> 10]

test_size_second == [num |-> 1, den |-> 3]

\* The train size rounded up as well, the test part getting what is left
ValidateShuffleSplitCeilTrain(n, test_size) ==
    LET n_train == Ceil((test_size.den - test_size.num) * n, test_size.den)
        n_test  == Ceil(test_size.num * n, test_size.den)
    IN  [ok |-> n_train > 0 /\ n_train + n_test <= n,
         n_train |-> n_train, n_test |-> n - n_train]

\* sklearn ShuffleSplit sizes: n_test = ceil(test_size * n), n_train the rest;
\* an empty train set raises ValueError.
ValidateShuffleSplit(n, test_size) ==
    LET n_test  == Ceil(test_size.num * n, test_size.den)
        n_train == n - n_test
    IN  [ok |-> n_train > 0, n_train |-> n_train, n_test |-> n_test]

\* A generator that is not re-seeded: later draws differ from the first.
PermutationUnseeded(seed, n, calls) ==
    IF calls < 2 THEN mt19937[n] ELSE Reverse(mt19937[n])

\* RandomState(seed).permutation(n): a fresh generator per call, so the
\* draw depends on the seed and n only, not on the calls made before.
Permutation(seed, n, calls) == mt19937[n]

\* X[train], X[test] with test = permutation[:n_test] and
\* train = permutation[n_test : n_test + n_train]
train_test_split(arr, test_size, seed, calls) ==
    LET n    == Len(arr)
        sz   == ValidateShuffleSplit(n, test_size)
        perm == Permutation(seed, n, calls)
    IN  [ok    |-> sz.ok,
         train |-> [i \in 1..sz.n_train |-> arr[perm[sz.n_test + i]]],
         test  |-> [i \in 1..sz.n_test |-> arr[perm[i]]]]

\* line 79
Split1 ==
    /\ pc = "split1"
    /\ LET r == train_test_split(Identity(n_samples), test_size_first,
                                 random_state, rng_calls)
       IN  IF r.ok
           THEN /\ X_train' = r.train
                /\ X_temp' = r.test
                /\ pc' = "split2"
           ELSE /\ pc' = "raised:split"
                /\ UNCHANGED <<X_train, X_temp>>
    /\ rng_calls' = rng_calls + 1
    /\ UNCHANGED <<n_samples, y, mt19937, X_val, X_test, resplit>>
    /\ UNCHANGED <<gridVars, searchVars>>

\* line 80: the train part of the second split is the validation partition
Split2 ==
    /\ pc = "split2"
    /\ LET r == train_test_split(X_temp, test_size_second, random_state, rng_calls)
       IN  IF r.ok
           THEN /\ X_val' = r.train
                /\ X_test' = r.test
                /\ pc' = "search"
           ELSE /\ pc' = "raised:split"
                /\ UNCHANGED <<X_val, X_test>>
    /\ rng_calls' = rng_calls + 1
    /\ UNCHANGED <<n_samples, y, mt19937, X_train, X_temp, resplit>>
    /\ UNCHANGED <<gridVars, searchVars>>

\* The two splits made again on the same input with the same seed
Resplit ==
    /\ pc = "search"
    /\ resplit = <<>>
    /\ LET r1 == train_test_split(Identity(n_samples), test_size_first,
                                  random_state, rng_calls)
           r2 == train_test_split(r1.test, test_size_second,
                                  random_state, rng_calls + 1)
       IN  resplit' = <<[train |-> r1.train, val |-> r2.train, test |-> r2.test]>>
    /\ rng_calls' = rng_calls + 2
    /\ UNCHANGED <<pc, n_samples, y, mt19937, X_train, X_temp, X_val, X_test>>
    /\ UNCHANGED <<gridVars, searchVars>>

----------------------------------------------------------------------------
(* Grid Expander: list(ParameterGrid(param_grid)) *)

\* A grid is the sequence of its items in the insertion order of the dict.
Item(name, values) == [name |-> name, values |-> values]

\* lines 83-89
param_grid_RFC ==
    << Item("classifier__n_estimators", <<"500", "700">>),
       Item("classifier__max_depth", <<"10", "20">>),
       Item("classifier__min_samples_split", <<"10", "20">>),
       Item("classifier__min_samples_leaf", <<"5", "10">>),
       Item("classifier__max_features", <<"sqrt">>) >>

\* lines 159-164
param_grid_SVC ==
    << Item("classifier__C", <<"1", "5">>),
       Item("classifier__kernel", <<"rbf">>),
       Item("classifier__gamma", <<"scale", "0.1">>),
       Item("classifier__max_iter", <<"500", "-1">>) >>

\* The characters of a parameter name, as code points
StrCodes(s) ==
    CASE s = "classifier__n_estimators" ->
            <<99, 108, 97, 115, 115, 105, 102, 105, 101, 114, 95, 95, 110, 95, 101, 115, 116, 105, 109, 97, 116, 111, 114, 115>>
       [] s = "classifier__max_depth" ->
            <<99, 108, 97, 115, 115, 105, 102, 105, 101, 114, 95, 95, 109, 97, 120, 95, 100, 101, 112, 116, 104>>
       [] s = "classifier__min_samples_split" ->
            <<99, 108, 97, 115, 115, 105, 102, 105, 101, 114, 95, 95, 109, 105, 110, 95, 115, 97, 109, 112, 108, 101, 115, 95, 115, 112, 108, 105, 116>>
       [] s = "classifier__min_samples_leaf" ->
            <<99, 108, 97, 115, 115, 105, 102, 105, 101, 114, 95, 95, 109, 105, 110, 95, 115, 97, 109, 112, 108, 101, 115, 95, 108, 101, 97, 102>>
       [] s = "classifier__max_features" ->
            <<99, 108, 97, 115, 115, 105, 102, 105, 101, 114, 95, 95, 109, 97, 120, 95, 102, 101, 97, 116, 117, 114, 101, 115>>
       [] s = "classifier__C" ->
            <<99, 108, 97, 115, 115, 105, 102, 105, 101, 114, 95, 95, 67>>
       [] s = "classifier__kernel" ->
            <<99, 108, 97, 115, 115, 105, 102, 105, 101, 114, 95, 95, 107, 101, 114, 110, 101, 108>>
       [] s = "classifier__gamma" ->
            <<99, 108, 97, 115, 115, 105, 102, 105, 101, 114, 95, 95, 103, 97, 109, 109, 97>>
       [] s = "classifier__max_iter" ->
            <<99, 108, 97, 115, 115, 105, 102, 105, 101, 114, 95, 95, 109, 97, 120, 95, 105, 116, 101, 114>>

\* Python's str comparison: by code point, a proper prefix first
StrLess(a, b) ==
    LET ca == StrCodes(a)
        cb == StrCodes(b)
    IN  \/ \E k \in 1..Len(ca) :
              /\ k <= Len(cb)
              /\ \A i \in 1..(k - 1) : ca[i] = cb[i]
              /\ ca[k] < cb[k]
        \/ /\ Len(ca) < Len(cb)
           /\ \A i \in 1..Len(ca) : ca[i] = cb[i]

\* The items left in the order the dict holds them
SortedItemsInsertionOrder(grid) == grid

\* sorted(p.items()): the items by ascending name
SortedItems(grid) ==
    [k \in 1..Len(grid) |->
        grid[CHOOSE i \in 1..Len(grid) :
                Cardinality({j \in 1..Len(grid) : StrLess(grid[j].name, grid[i].name)})
                    = k - 1]]

\* ParameterGrid.__len__
RECURSIVE ProductOfCounts(_)
ProductOfCounts(grid) ==
    IF grid = <<>> THEN 1
    ELSE Len(Head(grid).values) * ProductOfCounts(Tail(grid))

Lens(items) == [k \in 1..Len(items) |-> Len(items[k].values)]

\* The first tuple of itertools.product; none when a list is empty
ProductFirst(lens) ==
    IF \E k \in 1..Len(lens) : lens[k] = 0 THEN <<>> ELSE [k \in 1..Len(lens) |-> 1]

\* An odometer that never carries: only the last list is walked
ProductNextNoCarry(idx, lens) ==
    IF idx[Len(idx)] < lens[Len(idx)]
    THEN [idx EXCEPT ![Len(idx)] = @ + 1]
    ELSE <<>>

\* The tuple after idx: the rightmost list moves fastest; <<>> when exhausted
ProductNext(idx, lens) ==
    LET movable == {k \in 1..Len(idx) : idx[k] < lens[k]}
    IN  IF movable = {} THEN <<>>
        ELSE LET j == CHOOSE k \in movable : \A m \in movable : m <= k
             IN  [k \in 1..Len(idx) |->
                    IF k < j THEN idx[k] ELSE IF k = j THEN idx[k] + 1 ELSE 1]

\* dict(zip(keys, v)): the parameters of one candidate, by name
ParamsAt(items, idx) ==
    [nm \in {items[k].name : k \in 1..Len(items)} |->
        LET k == CHOOSE k \in 1..Len(items) : items[k].name = nm
        IN  items[k].values[idx[k]]]

\* lines 108 and 183, GridSearchCV.fit: ParameterGrid(param_grid) is set up;
\* an empty candidate list raises ValueError
BeginSearch ==
    /\ pc = "search"
    /\ param_grid' = param_grids[family]
    /\ candidate_params' = <<>>
    /\ cv_splits' = <<>>
    /\ dispatched' = 0
    /\ running' = {}
    /\ out' = <<>>
    /\ LET first == ProductFirst(Lens(SortedItems(param_grids[family])))
       IN  IF first = <<>>
           THEN /\ pc' = "raised:grid"
                /\ UNCHANGED product_idx
           ELSE /\ pc' = "expand"
                /\ product_idx' = first
    /\ UNCHANGED <<family, param_grids>>
    /\ UNCHANGED splitVars
    /\ UNCHANGED <<n_jobs, fit_outcome, refit_raises, cv_results_, search, heap,
                   fit_log, y_pred>>

\* One step of list(ParameterGrid(param_grid)): the next candidate
ExpandNext ==
    /\ pc = "expand"
    /\ LET items == SortedItems(param_grid)
           nxt   == ProductNext(product_idx, Lens(items))
       IN  /\ candidate_params' = Append(candidate_params, ParamsAt(items, product_idx))
           /\ product_idx' = nxt
           /\ pc' = IF nxt = <<>> THEN "folds" ELSE "expand"
    /\ UNCHANGED <<family, param_grids, param_grid>>
    /\ UNCHANGED <<splitVars, searchVars>>

----------------------------------------------------------------------------
(* Cross-Validated Scorer: cv=5 on a classifier is StratifiedKFold(5),     *)
(* without shuffling                                                       *)

n_splits == 5

Labels(rows) == [i \in 1..Len(rows) |-> y[rows[i]]]

FirstIndex(ys, c) ==
    CHOOSE i \in 1..Len(ys) : ys[i] = c /\ \A j \in 1..(i - 1) : ys[j] # c

\* y_encoded: the classes numbered from 0 in the order they first appear
Encoded(ys) ==
    LET first == [c \in Range(ys) |-> FirstIndex(ys, c)]
        code  == [c \in Range(ys) |->
                    Cardinality({d \in Range(ys) : first[d] < first[c]})]
    IN  [i \in 1..Len(ys) |-> code[ys[i]]]

\* The 0-based places of class code k in y_order = sort(y_encoded)
SortedSlots(enc, k) ==
    LET start == Cardinality({i \in 1..Len(enc) : enc[i] < k})
        count == Cardinality({i \in 1..Len(enc) : enc[i] = k})
    IN  start..(start + count - 1)

\* folds_for_class = arange(n_splits).repeat(allocation[:, k]), where
\* allocation[f, k] counts class k in y_order[f :: n_splits]: the fold of
\* the m-th member of class k
FoldOfMember(slots, m) ==
    CHOOSE f \in 0..(n_splits - 1) :
        /\ Cardinality({j \in slots : j % n_splits < f}) < m
        /\ m <= Cardinality({j \in slots : j % n_splits <= f})

\* Evaluates a sequence once
Materialize(s) == CHOOSE t \in {s} : TRUE

\* _make_test_folds: the fold each position is held out in
test_folds(ys) ==
    LET enc   == Materialize(Encoded(ys))
        slots == Materialize([k \in Range(enc) |-> SortedSlots(enc, k)])
    IN  Materialize([i \in 1..Len(ys) |->
            FoldOfMember(slots[enc[i]], Cardinality({j \in 1..i : enc[j] = enc[i]}))])

ClassCount(ys, c) == Cardinality({i \in 1..Len(ys) : ys[i] = c})

\* ValueError when no class has n_splits members
StratifiedOK(ys) == \E c \in Range(ys) : ClassCount(ys, c) >= n_splits

TestRows(rows, folds, f) == {rows[i] : i \in {j \in 1..Len(rows) : folds[j] = f}}

\* The held-out rows are left in the training rows
TrainRowsWithHeldOut(rows, folds, f) == Range(rows)

\* indices[~test_mask]
TrainRows(rows, folds, f) == {rows[i] : i \in {j \in 1..Len(rows) : folds[j] # f}}

\* list(cv.split(X, y)): the rows to fit on and to score on, per fold
KFoldSplits(rows) ==
    LET folds == test_folds(Labels(rows))
    IN  [f \in 1..n_splits |->
            [train |-> TrainRows(rows, folds, f - 1),
             test  |-> TestRows(rows, folds, f - 1)]]

\* GridSearchCV.fit: the folds of X_train are built once, for all candidates
SplitFolds ==
    /\ pc = "folds"
    /\ IF StratifiedOK(Labels(X_train))
       THEN /\ cv_splits' = KFoldSplits(X_train)
            /\ pc' = "units"
       ELSE /\ pc' = "raised:folds"
            /\ UNCHANGED cv_splits
    /\ UNCHANGED <<splitVars, gridVars>>
    /\ UNCHANGED <<n_jobs, fit_outcome, refit_raises, dispatched, running, out,
                   cv_results_, search, heap, fit_log, y_pred>>

----------------------------------------------------------------------------
(* Grid Search Engine: the fit-and-score units, run by n_jobs workers *)

\* product(candidate_params, cv_splits): unit u is (candidate, fold)
NUnits == Len(candidate_params) * n_splits

CandOf(u) == ((u - 1) \div n_splits) + 1

FoldOf(u) == ((u - 1) % n_splits) + 1

\* error_score=np.nan: the score of a fit that raised
NaN == [failed |-> TRUE, score |-> 0]

\* A unit is handed to a free worker, in submission order
Dispatch ==
    /\ pc = "units"
    /\ dispatched < NUnits
    /\ Cardinality(running) < n_jobs
    /\ dispatched' = dispatched + 1
    /\ running' = running \cup {dispatched + 1}
    /\ UNCHANGED <<pc, splitVars, gridVars>>
    /\ UNCHANGED <<n_jobs, fit_outcome, refit_raises, cv_splits, out, cv_results_,
                   search, heap, fit_log, y_pred>>

\* The results in the order the units finish
PlaceResultByArrival(results, u, r) == results @@ ((Cardinality(DOMAIN results) + 1) :> r)

\* Parallel returns the results in the order the units were submitted
PlaceResult(results, u, r) == results @@ (u :> r)

LogEntry(stage, cand, fold, train, test) ==
    [family |-> family, stage |-> stage, cand |-> cand, fold |-> fold,
     train |-> train, test |-> test]

\* _fit_and_score of one unit ends: a clone of the pipeline with the
\* candidate's parameters was fitted on the fold's training rows and scored
\* on its held-out rows; a fit that raised scores NaN
Complete(u) ==
    /\ pc = "units"
    /\ u \in running
    /\ running' = running \ {u}
    /\ out' = PlaceResult(out, u, fit_outcome[family][CandOf(u)][FoldOf(u)])
    /\ fit_log' = fit_log \cup
          {LogEntry("cv", CandOf(u), FoldOf(u),
                    cv_splits[FoldOf(u)].train, cv_splits[FoldOf(u)].test)}
    /\ UNCHANGED <<pc, splitVars, gridVars>>
    /\ UNCHANGED <<n_jobs, fit_outcome, refit_raises, cv_splits, dispatched,
                   cv_results_, search, heap, y_pred>>

ResultOf(u) == IF u \in DOMAIN out THEN out[u] ELSE NaN

\* The results are aggregated once the last unit is handed out
AllUnitsDoneNoBarrier == dispatched = NUnits

\* Parallel returns when every unit has finished
AllUnitsDone == dispatched = NUnits /\ running = {}

\* No fit failure ever ends the search
AllFitsFailedIgnored == FALSE

\* _warn_or_raise_about_fit_failures: every fit of the search raised
AllFitsFailed == \A u \in 1..NUnits : ResultOf(u).failed

RECURSIVE SumScores(_, _)
SumScores(c, f) ==
    IF f = 0 THEN 0
    ELSE (IF ResultOf((c - 1) * n_splits + f).failed THEN 0
          ELSE ResultOf((c - 1) * n_splits + f).score) + SumScores(c, f - 1)

\* The mean over the folds that did not fail
MeanTestScoreNanMean(c) ==
    [nan   |-> \A f \in 1..n_splits : ResultOf((c - 1) * n_splits + f).failed,
     total |-> SumScores(c, n_splits)]

\* mean_test_score of candidate c, as total / n_splits: NaN when a fold is NaN
MeanTestScore(c) ==
    [nan   |-> \E f \in 1..n_splits : ResultOf((c - 1) * n_splits + f).failed,
     total |-> SumScores(c, n_splits)]

\* rank_test_score: rankdata(-means, method="min"), a NaN mean counted as
\* less than the least mean; all 1 when every mean is NaN
RankTestScore(means) ==
    LET valid == {c \in DOMAIN means : ~means[c].nan}
        least == CHOOSE t \in {means[c].total : c \in valid} :
                    \A c \in valid : t <= means[c].total
        value == [c \in DOMAIN means |->
                    IF means[c].nan THEN least - 1 ELSE means[c].total]
    IN  IF valid = {} THEN [c \in DOMAIN means |-> 1]
        ELSE [c \in DOMAIN means |->
                1 + Cardinality({d \in DOMAIN means : value[d] > value[c]})]

\* The last of the best-ranked candidates
ArgMinLast(ranks) ==
    CHOOSE c \in DOMAIN ranks :
        /\ \A d \in DOMAIN ranks : ranks[c] <= ranks[d]
        /\ \A d \in DOMAIN ranks : d > c => ranks[d] # ranks[c]

\* rank_test_score.argmin(): the first of the best-ranked candidates
ArgMin(ranks) ==
    CHOOSE c \in DOMAIN ranks :
        /\ \A d \in DOMAIN ranks : ranks[c] <= ranks[d]
        /\ \A d \in DOMAIN ranks : d < c => ranks[d] # ranks[c]

\* Every unit has finished: ValueError when all fits failed, else the
\* results are aggregated and best_index_, best_score_, best_params_ are set
Select ==
    /\ pc = "units"
    /\ AllUnitsDone
    /\ IF AllFitsFailed
       THEN /\ pc' = "raised:all_failed"
            /\ UNCHANGED <<cv_results_, search>>
       ELSE LET means == [c \in 1..Len(candidate_params) |-> MeanTestScore(c)]
                ranks == RankTestScore(means)
                best  == ArgMin(ranks)
            IN  /\ cv_results_' = (family :> [mean_test_score |-> means,
                                              rank_test_score |-> ranks])
                                    @@ cv_results_
                /\ search' = (family :> [best_index_     |-> best,
                                         best_score_     |-> means[best],
                                         best_params_    |-> candidate_params[best],
                                         best_estimator_ |-> ""])
                                    @@ search
                /\ pc' = "refit"
    /\ UNCHANGED <<splitVars, gridVars>>
    /\ UNCHANGED <<n_jobs, fit_outcome, refit_raises, cv_splits, dispatched, running,
                   out, heap, fit_log, y_pred>>

\* One estimator object serves every fit
clone_same_object(obj, fresh) == obj

\* clone(estimator): a new, unfitted object with the same parameters; the
\* name of the object that the coming fit acts on
clone(obj, fresh) == fresh

Unfitted(params) == [params |-> params, fitted_on |-> {}]

\* The pipeline behind a family's GridSearchCV: lines 92-95 and 167-170
BaseEstimator(f) == IF f = "RFC" THEN "rfc" ELSE "svc"

\* refit=True: a clone of the pipeline with best_params_ is fitted on all of
\* X_train; an exception of this fit is not caught
Refit ==
    /\ pc = "refit"
    /\ LET best   == search[family].best_index_
           target == clone(BaseEstimator(family), "best_" \o family)
           nth    == Cardinality({e \in fit_log :
                                    e.family = family /\ e.stage = "refit"}) + 1
       IN  /\ fit_log' = fit_log \cup
                 {LogEntry("refit", best, nth, Range(X_train), {})}
           /\ IF refit_raises[family]
              THEN /\ pc' = "raised:refit"
                   /\ UNCHANGED <<search, heap>>
              ELSE /\ heap' = (target :> [params    |-> candidate_params[best],
                                          fitted_on |-> Range(X_train)]) @@ heap
                   /\ search' = [search EXCEPT ![family].best_estimator_ = target]
                   /\ pc' = "validate"
    /\ UNCHANGED <<splitVars, gridVars>>
    /\ UNCHANGED <<n_jobs, fit_outcome, refit_raises, cv_splits, dispatched, running,
                   out, cv_results_, y_pred>>

----------------------------------------------------------------------------
(* Validation and test *)

\* lines 121 and 196: cross_validate(best_estimator_, X_val, y_val, cv=5)
\* fits a clone of the estimator on each fold of X_val; ValueError when the
\* folds cannot be built or when every fit raised
CrossValidate ==
    /\ pc = "validate"
    /\ \E all_failed \in BOOLEAN :
          IF ~StratifiedOK(Labels(X_val))
          THEN /\ pc' = "raised:validate"
               /\ UNCHANGED <<heap, fit_log>>
          ELSE LET best   == search[family].best_estimator_
                   target == clone(best, "validate_" \o family)
                   splits == KFoldSplits(X_val)
               IN  /\ heap' = (target :> [params    |-> heap[best].params,
                                          fitted_on |-> splits[n_splits].train])
                                 @@ heap
                   /\ fit_log' = fit_log \cup
                         {LogEntry("validate", search[family].best_index_, f,
                                   splits[f].train, splits[f].test) :
                             f \in 1..n_splits}
                   /\ pc' = IF all_failed THEN "raised:validate" ELSE "predict"
    /\ UNCHANGED <<splitVars, gridVars>>
    /\ UNCHANGED <<n_jobs, fit_outcome, refit_raises, cv_splits, dispatched, running,
                   out, cv_results_, search, y_pred>>

\* lines 132 and 207: best_estimator_.predict(X_test); the script then goes
\* on to the second family
Predict ==
    /\ pc = "predict"
    /\ LET best == search[family].best_estimator_
       IN  y_pred' = (family :> [rows      |-> X_test,
                                 params    |-> heap[best].params,
                                 fitted_on |-> heap[best].fitted_on]) @@ y_pred
    /\ IF family = "RFC"
       THEN family' = "SVC" /\ pc' = "search"
       ELSE family' = family /\ pc' = "done"
    /\ UNCHANGED <<param_grids, param_grid, product_idx, candidate_params>>
    /\ UNCHANGED splitVars
    /\ UNCHANGED <<n_jobs, fit_outcome, refit_raises, cv_splits, dispatched, running,
                   out, cv_results_, search, heap, fit_log>>

----------------------------------------------------------------------------
(* Initial states *)

NTemp(n) == ValidateShuffleSplit(n, test_size_first).n_test

AtStart == pc = "split1"

InitProgram ==
    /\ rng_calls = 0
    /\ X_train = <<>>
    /\ X_temp = <<>>
    /\ X_val = <<>>
    /\ X_test = <<>>
    /\ resplit = <<>>
    /\ family = "RFC"
    /\ param_grid = <<>>
    /\ product_idx = <<>>
    /\ candidate_params = <<>>
    /\ cv_splits = <<>>
    /\ dispatched = 0
    /\ running = {}
    /\ out = <<>>
    /\ cv_results_ = <<>>
    /\ search = <<>>
    /\ fit_log = {}
    /\ y_pred = <<>>

\* Inputs of a run in which only the data split is looked at
NoSearchInputs ==
    /\ param_grids = [RFC |-> param_grid_RFC, SVC |-> param_grid_SVC]
    /\ n_jobs = 1
    /\ fit_outcome = <<>>
    /\ refit_raises = <<>>
    /\ heap = <<>>

\* Every dataset of up to MaxRecords rows and every shuffle of it
InitSplit ==
    /\ InitProgram
    /\ AtStart
    /\ NoSearchInputs
    /\ n_samples \in 0..MaxRecords
    /\ y = [r \in 1..n_samples |-> 1]
    /\ \E p1 \in PermSeqs(1..n_samples), p2 \in PermSeqs(1..NTemp(n_samples)) :
          mt19937 = (n_samples :> p1) @@ (NTemp(n_samples) :> p2)

\* Every dataset size up to MaxDataset, shuffled in one of two ways
InitSizes ==
    /\ InitProgram
    /\ AtStart
    /\ NoSearchInputs
    /\ n_samples \in 0..MaxDataset
    /\ y = [r \in 1..n_samples |-> 1]
    /\ \E f1 \in BOOLEAN, f2 \in BOOLEAN :
          LET p1 == IF f1 THEN Identity(n_samples) ELSE Reverse(Identity(n_samples))
              p2 == IF f2 THEN Identity(NTemp(n_samples))
                    ELSE Reverse(Identity(NTemp(n_samples)))
          IN  mt19937 = (n_samples :> p1) @@ (NTemp(n_samples) :> p2)

\* Injective sequences of length len over S
RECURSIVE DistinctSeqs(_, _)
DistinctSeqs(S, len) ==
    IF len = 0 THEN {<<>>}
    ELSE UNION {{<<x>> \o s : s \in DistinctSeqs(S \ {x}, len - 1)} : x \in S}

NamePool == {"classifier__C", "classifier__gamma", "classifier__kernel"}

\* Grids of up to MaxParams parameters, in every insertion order, each with
\* 1..MaxCandidates candidate values "1", "2", ...
GeneratedGrids ==
    UNION {{[k \in 1..len |->
                Item(ns[k], [v \in 1..ls[k] |-> ToString(v)])] :
               ns \in DistinctSeqs(NamePool, len), ls \in [1..len -> 1..MaxCandidates]} :
           len \in 1..MaxParams}

\* The expansion of the script's two grids and of every generated grid
InitGrid ==
    /\ InitProgram
    /\ pc = "search"
    /\ n_samples = 0
    /\ y = <<>>
    /\ mt19937 = <<>>
    /\ \E g \in {param_grid_RFC, param_grid_SVC} \cup GeneratedGrids :
          param_grids = [RFC |-> g, SVC |-> param_grid_SVC]
    /\ n_jobs = 1
    /\ fit_outcome = <<>>
    /\ refit_raises = <<>>
    /\ heap = <<>>


BaseHeap == ("rfc" :> Unfitted(<<>>)) @@ ("svc" :> Unfitted(<<>>))

Classes == {1, 2}

TrainSize(n) == n - NTemp(n)

ValSize(n) == ValidateShuffleSplit(NTemp(n), test_size_second).n_train

Score(s) == [failed |-> FALSE, score |-> s]

TwoCandidates == <<param_grid_SVC[1], param_grid_SVC[2]>>

\* Every labelling, with two classes, of the training rows of a dataset of
\* up to MaxFoldRecords rows that leaves n_splits rows to train on (the rows
\* held out are of class 1); two candidates, one worker, every fit scoring 1
InitFolds ==
    /\ InitProgram
    /\ AtStart
    /\ n_samples \in {n \in 0..MaxFoldRecords : TrainSize(n) >= n_splits}
    /\ mt19937 = (n_samples :> Identity(n_samples)) @@
                 (NTemp(n_samples) :> Identity(NTemp(n_samples)))
    /\ \E l \in [(NTemp(n_samples) + 1)..n_samples -> Classes] :
          y = [r \in 1..n_samples |-> IF r \in DOMAIN l THEN l[r] ELSE 1]
    /\ param_grids = [RFC |-> TwoCandidates, SVC |-> param_grid_SVC]
    /\ n_jobs = 1
    /\ fit_outcome = [RFC |-> [c \in 1..2 |-> [f \in 1..n_splits |-> Score(1)]],
                      SVC |-> <<>>]
    /\ refit_raises = [RFC |-> FALSE, SVC |-> FALSE]
    /\ heap = BaseHeap

Outcomes == {NaN} \cup {Score(s) : s \in 0..MaxScore}

\* What the five fits of one candidate give: the first fold and the later
\* folds each in every way
FoldProfiles ==
    {[f \in 1..n_splits |-> IF f = 1 THEN a ELSE b] : a \in Outcomes, b \in Outcomes}

SearchGrids == {<<param_grid_SVC[2]>>, TwoCandidates}

\* The least dataset that leaves n_splits rows to train on
LeastTrainable ==
    CHOOSE n \in 0..MaxFoldRecords :
        /\ TrainSize(n) >= n_splits
        /\ \A k \in 0..(n - 1) : TrainSize(k) < n_splits

\* The search of a grid of one or two candidates, with 1..MaxWorkers
\* workers, every outcome of the fits of each candidate and of the refit
InitSearch ==
    /\ InitProgram
    /\ AtStart
    /\ n_samples = LeastTrainable
    /\ y = [r \in 1..n_samples |-> 1]
    /\ mt19937 = (n_samples :> Identity(n_samples)) @@
                 (NTemp(n_samples) :> Identity(NTemp(n_samples)))
    /\ n_jobs \in 1..MaxWorkers
    /\ \E g \in SearchGrids :
          /\ param_grids = [RFC |-> g, SVC |-> param_grid_SVC]
          /\ \E t \in [1..ProductOfCounts(g) -> FoldProfiles] :
                fit_outcome = [RFC |-> t, SVC |-> <<>>]
    /\ \E r \in BOOLEAN : refit_raises = [RFC |-> r, SVC |-> FALSE]
    /\ heap = BaseHeap

\* The least dataset whose validation partition holds n_splits rows
LeastValidatable ==
    CHOOSE n \in 0..MaxDataset :
        /\ ValSize(n) >= n_splits
        /\ \A k \in 0..(n - 1) : ValSize(k) < n_splits

\* Candidate w scores 1 on every fold and the others 0; the fits of the
\* candidates in F raise
RunTable(nc, w, F) ==
    [c \in 1..nc |-> [f \in 1..n_splits |->
        IF c \in F THEN NaN ELSE Score(IF c = w THEN 1 ELSE 0)]]

RunTables(nc) == {RunTable(nc, nc, F) : F \in {{}, {nc}}}

\* A whole run of the script on its two grids
InitRun ==
    /\ InitProgram
    /\ AtStart
    /\ n_samples = LeastValidatable
    /\ y = [r \in 1..n_samples |-> 1]
    /\ mt19937 = (n_samples :> Reverse(Identity(n_samples))) @@
                 (NTemp(n_samples) :> Identity(NTemp(n_samples)))
    /\ param_grids = [RFC |-> param_grid_RFC, SVC |-> param_grid_SVC]
    /\ n_jobs = 1
    /\ \E t1 \in RunTables(ProductOfCounts(param_grid_RFC)),
          t2 \in RunTables(ProductOfCounts(param_grid_SVC)) :
          fit_outcome = [RFC |-> t1, SVC |-> t2]
    /\ refit_raises \in [{"RFC", "SVC"} -> BOOLEAN]
    /\ heap = BaseHeap

NextSplit == Split1 \/ Split2 \/ Resplit

SpecSplit == InitSplit /\ [][NextSplit]_vars

SpecSizes == InitSizes /\ [][NextSplit]_vars

NextGrid == BeginSearch \/ ExpandNext

SpecGrid == InitGrid /\ [][NextGrid]_vars

NextSearch ==
    \/ Split1
    \/ Split2
    \/ BeginSearch
    \/ ExpandNext
    \/ SplitFolds
    \/ Dispatch
    \/ \E u \in running : Complete(u)
    \/ Select
    \/ Refit

SpecFolds == InitFolds /\ [][NextSearch]_vars

SpecSearch == InitSearch /\ [][NextSearch]_vars

NextRun == NextSearch \/ CrossValidate \/ Predict

SpecRun == InitRun /\ [][NextRun]_vars

----------------------------------------------------------------------------
(* C1: the Training, Validation and Test partitions are pairwise disjoint, *)
(* together hold every record exactly once, and a repeated split of the    *)
(* same input with seed 42 gives the same partitions.                      *)

NoDup(s) == \A i, j \in DOMAIN s : i # j => s[i] # s[j]

SplitDone == pc \notin {"split1", "split2"} /\ X_val # <<>>

C1_SplitPartition ==
    /\ SplitDone =>
          /\ Range(X_train) \cap Range(X_val) = {}
          /\ Range(X_train) \cap Range(X_test) = {}
          /\ Range(X_val) \cap Range(X_test) = {}
          /\ Range(X_train) \cup Range(X_val) \cup Range(X_test) = 1..n_samples
          /\ NoDup(X_train) /\ NoDup(X_val) /\ NoDup(X_test)
          /\ Len(X_train) + Len(X_val) + Len(X_test) = n_samples
    /\ resplit # <<>> =>
          /\ resplit[1].train = X_train
          /\ resplit[1].val = X_val
          /\ resplit[1].test = X_test

C1_Witness ==
    /\ resplit # <<>>
    /\ n_samples = MaxRecords
    /\ X_train # Identity(Len(X_train))
    /\ Len(X_val) > 0 /\ Len(X_test) > 0

----------------------------------------------------------------------------
(* C2 as stated: the partition sizes are the proportions 0.70/0.20/0.10    *)
(* rounded to record counts, the remainder going to Training.              *)

RoundNearest(num, den) == (2 * num + den) \div (2 * den)

C2_RoundedProportions ==
    SplitDone =>
        /\ Len(X_val) = RoundNearest(2 * n_samples, 10)
        /\ Len(X_test) = RoundNearest(n_samples, 10)
        /\ Len(X_train) = n_samples - Len(X_val) - Len(X_test)

(* C2 as amended: the 30% held out is rounded up to a record count, Test   *)
(* is a third of the held-out records rounded up, Validation is the rest   *)
(* of the held-out records and Training is what the first split leaves;    *)
(* every dataset of at least 4 records is split, and 100 records are split *)
(* 70/20/10.                                                               *)
C2_CeilingSizes ==
    /\ SplitDone =>
          LET held == Len(X_val) + Len(X_test)
          IN  /\ 10 * held >= 3 * n_samples
              /\ 10 * (held - 1) < 3 * n_samples
              /\ 3 * Len(X_test) >= held
              /\ 3 * (Len(X_test) - 1) < held
              /\ Len(X_train) = n_samples - held
              /\ n_samples = 100 =>
                    Len(X_train) = 70 /\ Len(X_val) = 20 /\ Len(X_test) = 10
    /\ pc = "raised:split" => n_samples < 4

C2_Witness ==
    /\ SplitDone
    /\ n_samples = 100
    /\ Len(X_train) = 70

----------------------------------------------------------------------------
(* C3 as stated: a grid expands to the product of its candidate counts,    *)
(* which is 80 for the Ensemble Tree grid and 8 for the Kernel Margin grid *)

Expanded == pc = "folds"

C3_EightyConfigurations ==
    Expanded =>
        /\ Len(candidate_params) = ProductOfCounts(param_grid)
        /\ param_grid = param_grid_RFC => Len(candidate_params) = 80
        /\ param_grid = param_grid_SVC => Len(candidate_params) = 8

(* C3 as amended: a grid expands to the product of its candidate counts,   *)
(* which is 16 for the Ensemble Tree grid (80 is its number of fits, 16    *)
(* configurations times 5 folds) and 8 for the Kernel Margin grid.         *)
C3_ProductOfCounts ==
    Expanded =>
        /\ Len(candidate_params) = ProductOfCounts(param_grid)
        /\ param_grid = param_grid_RFC => Len(candidate_params) = 16
        /\ param_grid = param_grid_SVC => Len(candidate_params) = 8

C3_Witness ==
    /\ Expanded
    /\ param_grid = param_grid_RFC
    /\ Len(candidate_params) = 16

----------------------------------------------------------------------------
(* C4 as stated: the enumerated configurations hold no duplicate and are   *)
(* in lexicographic order over the parameters in their insertion order,    *)
(* each parameter's candidates in list order.                              *)

IndexIn(values, v) == CHOOSE i \in 1..Len(values) : values[i] = v

\* a comes before b: at the first parameter of order where they differ, a
\* holds the earlier candidate
LexBefore(order, a, b) ==
    \E j \in 1..Len(order) :
        /\ \A i \in 1..(j - 1) : a[order[i].name] = b[order[i].name]
        /\ IndexIn(order[j].values, a[order[j].name])
              < IndexIn(order[j].values, b[order[j].name])

C4_InsertionOrder ==
    \A i, j \in 1..Len(candidate_params) :
        i < j => /\ candidate_params[i] # candidate_params[j]
                 /\ LexBefore(param_grid, candidate_params[i], candidate_params[j])

\* The items of a grid by ascending name
ItemsByName(grid) ==
    CHOOSE s \in DistinctSeqs(Range(grid), Len(grid)) :
        \A i, j \in 1..Len(s) : i < j => StrLess(s[i].name, s[j].name)

Names(items) == [k \in 1..Len(items) |-> items[k].name]

(* C4 as amended: the enumerated configurations hold no duplicate and are  *)
(* in lexicographic order over the parameters sorted by name (for the      *)
(* Ensemble Tree grid: max_depth, max_features, min_samples_leaf,          *)
(* min_samples_split, n_estimators), each parameter's candidates in list   *)
(* order.                                                                  *)
C4_SortedNameOrder ==
    /\ \A i, j \in 1..Len(candidate_params) :
          i < j => /\ candidate_params[i] # candidate_params[j]
                   /\ LexBefore(ItemsByName(param_grid),
                                candidate_params[i], candidate_params[j])
    /\ param_grid = param_grid_RFC =>
          Names(ItemsByName(param_grid)) =
              << "classifier__max_depth", "classifier__max_features",
                 "classifier__min_samples_leaf", "classifier__min_samples_split",
                 "classifier__n_estimators" >>

C4_Witness ==
    /\ Expanded
    /\ param_grid = param_grid_RFC
    /\ candidate_params[2]["classifier__n_estimators"] = "700"
    /\ candidate_params[2]["classifier__max_depth"] = "10"
    /\ candidate_params[3]["classifier__min_samples_split"] = "20"

----------------------------------------------------------------------------
(* C5: for every candidate, over the 5 rotations on the Training           *)
(* partition, each Training row is held out in exactly one rotation and    *)
(* fitted on in the 4 others, and no row is both fitted on and held out in *)
(* one rotation.                                                           *)

CvEntries(f, c) == {e \in fit_log : e.family = f /\ e.stage = "cv" /\ e.cand = c}

Scored(f) == f \in DOMAIN cv_results_

C5_FoldCoverage ==
    /\ \A e \in fit_log :
          e.stage = "cv" => /\ e.train \cap e.test = {}
                            /\ e.train \cup e.test = Range(X_train)
    /\ Scored(family) =>
          \A c \in 1..Len(candidate_params) :
              /\ Cardinality(CvEntries(family, c)) = n_splits
              /\ \A r \in Range(X_train) :
                    /\ Cardinality({e \in CvEntries(family, c) : r \in e.test}) = 1
                    /\ Cardinality({e \in CvEntries(family, c) : r \in e.train})
                          = n_splits - 1

C5_Witness ==
    /\ Scored(family)
    /\ Len(candidate_params) = 2
    /\ Len(X_train) > n_splits
    /\ \E r1, r2 \in Range(X_train) : y[r1] # y[r2]

----------------------------------------------------------------------------
(* What the fits of a candidate give, whatever order they finish in *)

OutcomeOf(c, f) == fit_outcome[family][c][f]

TrueFailed(c) == \E f \in 1..n_splits : OutcomeOf(c, f).failed

RECURSIVE TrueTotalTo(_, _)
TrueTotalTo(c, f) ==
    IF f = 0 THEN 0
    ELSE (IF OutcomeOf(c, f).failed THEN 0 ELSE OutcomeOf(c, f).score)
            + TrueTotalTo(c, f - 1)

TrueTotal(c) == TrueTotalTo(c, n_splits)

\* a has a higher mean than b; a mean with a failed fold is below every other
HigherMean(a, b) ==
    /\ ~TrueFailed(a)
    /\ TrueFailed(b) \/ TrueTotal(a) > TrueTotal(b)

Selected(f) == f \in DOMAIN search

Candidates == 1..Len(candidate_params)

EveryFitFailed == \A c \in Candidates : \A f \in 1..n_splits : OutcomeOf(c, f).failed

(* C6: with the units run by parallel workers, the selected candidate has  *)
(* the highest mean cross-validated score and is the first such candidate  *)
(* in the grid's order, whatever order the units finish in and however     *)
(* many workers there are.                                                 *)
C6_FirstHighestMean ==
    Selected(family) =>
        LET best == search[family].best_index_
        IN  /\ \A d \in Candidates : ~HigherMean(d, best)
            /\ \A d \in Candidates : d < best => HigherMean(best, d)
            /\ search[family].best_params_ = candidate_params[best]
            /\ search[family].best_score_ =
                  [nan |-> TrueFailed(best), total |-> TrueTotal(best)]

C6_Witness ==
    /\ Selected(family)
    /\ n_jobs > 1
    /\ Len(candidate_params) = 2
    /\ ~TrueFailed(1) /\ ~TrueFailed(2)
    /\ TrueTotal(1) = TrueTotal(2)
    /\ search[family].best_index_ = 1

----------------------------------------------------------------------------
(* C7 *)

\* A failing fold is recorded as NaN and every unit is still scored
C7_FailuresRecorded ==
    /\ \A u \in DOMAIN out : out[u] = OutcomeOf(CandOf(u), FoldOf(u))
    /\ Selected(family) \/ pc = "raised:all_failed" => DOMAIN out = 1..NUnits

\* A candidate with a failed fold ranks below every candidate without one
C7_FailedRanksLast ==
    Scored(family) =>
        \A c, d \in Candidates :
            TrueFailed(c) /\ ~TrueFailed(d) =>
                cv_results_[family].rank_test_score[c]
                    > cv_results_[family].rank_test_score[d]

AlwaysFails(c) == \A f \in 1..n_splits : OutcomeOf(c, f).failed

\* A grid of one always-failing and one valid candidate
ScenarioB(bad, good) ==
    /\ pc \notin {"split1", "split2", "search", "expand", "raised:split"}
    /\ Candidates = {bad, good}
    /\ bad # good
    /\ AlwaysFails(bad)
    /\ ~TrueFailed(good)
    /\ ~refit_raises[family]

C7_ValidCandidateReturned ==
    \A bad, good \in Candidates :
        ScenarioB(bad, good) =>
            /\ pc \notin {"raised:all_failed", "raised:refit"}
            /\ Selected(family) => search[family].best_index_ = good
            /\ pc = "validate" =>
                  /\ search[family].best_params_ = candidate_params[good]
                  /\ heap[search[family].best_estimator_].params = candidate_params[good]

----------------------------------------------------------------------------
(* C8 *)

SearchEnded == pc \in {"validate", "raised:all_failed", "raised:refit"}

RefitEntries(f) == {e \in fit_log : e.family = f /\ e.stage = "refit"}

\* The SearchResult: the best candidate, its mean score and the estimator
\* refitted with it on the Training partition
Returned ==
    /\ pc = "validate"
    /\ Selected(family)
    /\ LET r == search[family]
       IN  /\ r.best_params_ = candidate_params[r.best_index_]
           /\ r.best_score_ = cv_results_[family].mean_test_score[r.best_index_]
           /\ r.best_estimator_ \in DOMAIN heap
           /\ heap[r.best_estimator_] =
                 [params |-> r.best_params_, fitted_on |-> Range(X_train)]

(* C8 as stated: a grid search ends in exactly one of two outcomes: a      *)
(* SearchResult whenever some fit of some candidate succeeded, an error    *)
(* when every fit of every candidate failed.                               *)
C8_TwoOutcomes ==
    SearchEnded =>
        IF EveryFitFailed THEN pc = "raised:all_failed" ELSE Returned

(* C8 as amended: once the folds are built, a grid search ends in exactly  *)
(* one of three outcomes: a ValueError, before any selection or refit,     *)
(* when every fit of every candidate failed; the exception of the refit    *)
(* when some fit succeeded and the refit of the selected candidate on the  *)
(* Training partition raises; a SearchResult (best candidate, its mean     *)
(* score, refitted estimator) when some fit succeeded and the refit does   *)
(* not raise.                                                              *)
C8_ThreeOutcomes ==
    SearchEnded =>
        IF EveryFitFailed
        THEN /\ pc = "raised:all_failed"
             /\ ~Selected(family)
             /\ RefitEntries(family) = {}
        ELSE IF refit_raises[family]
        THEN /\ pc = "raised:refit"
             /\ search[family].best_estimator_ = ""
        ELSE Returned

C8_Witness ==
    /\ pc = "raised:refit"
    /\ ~EveryFitFailed
    /\ \E c \in Candidates : ~TrueFailed(c)

----------------------------------------------------------------------------
(* C9: the best candidate is selected and the refit is started only after  *)
(* every one of the (number of candidates) x 5 fit-and-score units of the  *)
(* grid has finished; the refit happens at most once, and exactly once in  *)
(* a search that returns, with the selected candidate, on the whole        *)
(* Training partition.                                                     *)
C9_FanInBarrier ==
    /\ Selected(family) =>
          /\ DOMAIN out = 1..NUnits
          /\ running = {}
          /\ \A c \in Candidates : Cardinality(CvEntries(family, c)) = n_splits
    /\ \A e \in RefitEntries(family) :
          /\ Selected(family)
          /\ e.cand = search[family].best_index_
          /\ e.train = Range(X_train)
          /\ \A c \in fit_log : c.stage = "cv" => c.train # e.train
    /\ Cardinality(RefitEntries(family)) <= 1
    /\ pc = "validate" => Cardinality(RefitEntries(family)) = 1

C9_Witness ==
    /\ pc = "validate"
    /\ n_jobs > 1
    /\ Len(candidate_params) = 2
    /\ search[family].best_index_ = 2
    /\ Cardinality(RefitEntries(family)) = 1

----------------------------------------------------------------------------
(* C10: once a grid search has completed, the validation step and the test *)
(* prediction (and the other family's run) leave its best candidate, mean  *)
(* score and fitted estimator unchanged; the estimator that predicts the   *)
(* Test partition is the one fitted on the Training partition only, and no *)
(* Test row is ever passed to a fit.                                       *)

Completed(f) == f \in DOMAIN search /\ search[f].best_estimator_ # ""

C10_ResultFrozen ==
    [][ /\ \A f \in {"RFC", "SVC"} :
              Completed(f) =>
                  /\ search'[f] = search[f]
                  /\ cv_results_'[f] = cv_results_[f]
                  /\ heap'[search[f].best_estimator_] = heap[search[f].best_estimator_]
        /\ \A f \in DOMAIN y_pred' :
              /\ y_pred'[f].rows = X_test'
              /\ y_pred'[f].fitted_on = Range(X_train')
              /\ y_pred'[f].params = search'[f].best_params_
        /\ \A e \in fit_log' : e.train \cap Range(X_test') = {}
      ]_vars

C10_Witness ==
    /\ pc = "done"
    /\ DOMAIN y_pred = {"RFC", "SVC"}
    /\ search["RFC"].best_index_ # search["SVC"].best_index_

====
